---- MODULE Spec2Model ----
(***************************************************************************)
(* State-machine model of the recycling detector's WebcamComponent:       *)
(* the requestAnimationFrame detection loop, its React state and          *)
(* closures, the start/stop paths and the status composition.             *)
(*                                                                         *)
(* Two revisions of the component are modelled, selected by `variant`:    *)
(*   "main"      src/src/components/WebcamComponent.tsx (micro:bit build)  *)
(*   "throttled" src/unnamed/part_003 (throttled loop, no micro:bit)       *)
(*                                                                         *)
(* React is modelled as React 18 does it: the setState calls of a handler *)
(* are batched, and the render that follows the handler commits them,     *)
(* creates the closures of that render and runs the effects whose         *)
(* dependencies changed.  Callbacks created by an earlier render keep the *)
(* values captured by that render.                                        *)
(***************************************************************************)
EXTENDS Integers, Sequences, FiniteSets, TLC

\* ---------------------------------------------------------------- bounds
\* Ticks (timers, animation frames, loop inferences) that may be pending
\* when the environment starts something new.
MaxThreads == 2
\* detect() calls that may be pending when a tick starts another one.
MaxInflight == 2
\* Inference failures in a row explored under free interleaving.
MaxErr == 1
\* Inference failures in a row explored in a failure burst.
MaxStreak == 5
\* Ticks that may be pending in a failure burst (each failure while
\* streaming leaves two more start timers behind).
MaxBurstThreads == 11
\* Length of the prediction lists fed to the status composition.
MaxDet == 2
\* Writes to the micro:bit that may be pending when a step issues another.
MaxWrites == 1

\* ------------------------------------------------- classification tables
RECYCLABLE_TRASH_ITEMS ==
  {"bottle", "cup", "wine glass", "plastic bag", "paper", "cardboard",
   "newspaper", "book", "aluminum foil", "tin can", "metal can",
   "container", "plastic"}

WRAPPER_LIKE_ITEMS ==
  {"book", "tie", "handbag", "backpack", "box", "suitcase"}

NOT_TRASH_ITEMS ==
  {"person", "human", "man", "woman", "child", "boy", "girl", "dog", "cat",
   "bird", "horse", "sheep", "cow", "elephant", "bear", "zebra", "giraffe"}

\* String.prototype.toLowerCase on the labels the model uses.
toLowerCase(s) ==
  CASE s = "Bottle" -> "bottle"
    [] s = "Person" -> "person"
    [] OTHER -> s

isRecyclable(objectClass) ==
  LET lowerClass == toLowerCase(objectClass)
  IN  lowerClass \in RECYCLABLE_TRASH_ITEMS \/ lowerClass \in WRAPPER_LIKE_ITEMS

isNotTrash(objectClass) ==
  LET lowerClass == toLowerCase(objectClass)
  IN  lowerClass \in NOT_TRASH_ITEMS

\* ------------------------------------------------------ sequence helpers
\* Array.prototype.filter
Filter(s, Keep(_)) == SelectSeq(s, Keep)

Map(s, F(_)) == [i \in 1..Len(s) |-> F(s[i])]

Range(s) == {s[i] : i \in 1..Len(s)}

RemoveAt(s, i) == SubSeq(s, 1, i - 1) \o SubSeq(s, i + 1, Len(s))

SeqsUpTo(S, n) == UNION {[1..k -> S] : k \in 0..n}

\* ------------------------------------------------------------ detections
\* A raw prediction of the detector: class, score (in 1/1000) and bbox.
Pred(c, s, x) == [class |-> c, score |-> s, bbox |-> <<x, 50, 40, 60>>]

\* Math.round(score * 100) for a score given in 1/1000.
RoundPercent(score) == (score + 5) \div 10

processDetections(predictions) ==
  Map(predictions,
      LAMBDA p : [class |-> p.class, confidence |-> RoundPercent(p.score),
                  x |-> p.bbox[1], y |-> p.bbox[2],
                  width |-> p.bbox[3], height |-> p.bbox[4]])

classOf(obj) == obj.class
Names(objs) == Map(objs, classOf)

\* ------------------------------------------------------------ status text
\* A status message: the template and the values interpolated into it.
Status(kind, names, items, count) ==
  [kind |-> kind, names |-> names, items |-> items, count |-> count]

Plain(kind) == Status(kind, <<>>, <<>>, 0)

notTrashOf(all) == Filter(all, LAMBDA o : isNotTrash(o.class))
\* A partition that lists every detection as trash.
trashOfAll(all) == all

trashOf(all) == Filter(all, LAMBDA o : ~isNotTrash(o.class))
\* A filter that keeps every trash item as recyclable.
recyclableOfAny(trash) == trash
recyclableOf(trash) == Filter(trash, LAMBDA o : isRecyclable(o.class))

\* A composition that tries the recyclable case before the not-trash case.
ComposeRecyclableFirst(allDetectedItems) ==
  LET notTrashItems == notTrashOf(allDetectedItems)
      trashItems == trashOf(allDetectedItems)
      recyclableItems == recyclableOf(trashItems)
  IN  IF Len(recyclableItems) > 0
      THEN Status("Recyclable items detected: {}!", <<>>, Names(recyclableItems), 0)
      ELSE IF Len(notTrashItems) > 0
      THEN IF Len(trashItems) > 0
           THEN Status("Detected: {} (not trash) and non-recyclable items",
                       Names(notTrashItems), <<>>, 0)
           ELSE Status("Detected: {} (not trash)", Names(notTrashItems), <<>>, 0)
      ELSE IF Len(trashItems) = 0
      THEN Plain("No objects detected")
      ELSE Status("No recyclable items found among {} detected object(s)",
                  <<>>, <<>>, Len(trashItems))

\* The status message composed from one inference result.
ComposeStatus(allDetectedItems) ==
  LET notTrashItems == notTrashOf(allDetectedItems)
      trashItems == trashOf(allDetectedItems)
      recyclableItems == recyclableOf(trashItems)
  IN  IF Len(notTrashItems) > 0
      THEN IF Len(recyclableItems) > 0
           THEN Status("Detected: {} (not trash) and recyclable items: {}",
                       Names(notTrashItems), Names(recyclableItems), 0)
           ELSE IF Len(trashItems) > 0
           THEN Status("Detected: {} (not trash) and non-recyclable items",
                       Names(notTrashItems), <<>>, 0)
           ELSE Status("Detected: {} (not trash)", Names(notTrashItems), <<>>, 0)
      ELSE IF Len(recyclableItems) > 0
      THEN Status("Recyclable items detected: {}!", <<>>, Names(recyclableItems), 0)
      ELSE IF Len(trashItems) = 0
      THEN Plain("No objects detected")
      ELSE Status("No recyclable items found among {} detected object(s)",
                  <<>>, <<>>, Len(trashItems))

\* -------------------------------------------- the text build (part_002)
\* The older micro:bit revision (src/unnamed/part_002) reports each
\* inference on the micro:bit's LED display as a short text.

\* The further lists of its classification table.
NON_RECYCLABLE_TRASH_ITEMS ==
  {"food", "banana", "apple", "sandwich", "orange", "broccoli", "carrot",
   "hot dog", "pizza", "donut", "cake", "organic waste", "wet waste"}

FROG_PROXY_CLASSES ==
  {"teddy bear", "toy", "doll", "stuffed animal", "handbag", "suitcase"}

LEMON_PROXY_CLASSES == {"orange", "apple", "sports ball"}

TOY_FROG_CLASSES == {"teddy bear"}

\* isRecyclable of part_002: the wrappers are not included.
isRecyclableTrash(objectClass) ==
  toLowerCase(objectClass) \in RECYCLABLE_TRASH_ITEMS

isNonRecyclable(objectClass) ==
  toLowerCase(objectClass) \in NON_RECYCLABLE_TRASH_ITEMS

isWrapper(objectClass) == toLowerCase(objectClass) \in WRAPPER_LIKE_ITEMS

isToyFrog(objectClass) == toLowerCase(objectClass) \in TOY_FROG_CLASSES

isPotentialLemon(objectClass) ==
  toLowerCase(objectClass) \in LEMON_PROXY_CLASSES

processLemonDetection(objects) ==
  Len(Filter(objects, LAMBDA o : isPotentialLemon(o.class))) > 0

\* A string as the sequence of its characters, for the strings the model
\* sends to the display.
Chars(s) ==
  CASE s = "bottle" -> <<"b", "o", "t", "t", "l", "e">>
    [] s = "Bottle" -> <<"B", "o", "t", "t", "l", "e">>
    [] s = "cup" -> <<"c", "u", "p">>
    [] s = "banana" -> <<"b", "a", "n", "a", "n", "a">>
    [] s = "person" -> <<"p", "e", "r", "s", "o", "n">>
    [] s = "Person" -> <<"P", "e", "r", "s", "o", "n">>
    [] s = "dog" -> <<"d", "o", "g">>
    [] s = "chair" -> <<"c", "h", "a", "i", "r">>
    [] s = "tie" -> <<"t", "i", "e">>
    [] s = "book" -> <<"b", "o", "o", "k">>
    [] s = "orange" -> <<"o", "r", "a", "n", "g", "e">>
    [] s = "teddy bear" -> <<"t", "e", "d", "d", "y", " ", "b", "e", "a", "r">>
    [] s = "FROG" -> <<"F", "R", "O", "G">>
    [] s = "LEMON" -> <<"L", "E", "M", "O", "N">>
    [] s = "WRAP" -> <<"W", "R", "A", "P">>
    [] s = "NONE" -> <<"N", "O", "N", "E">>
    [] s = "PERSON" -> <<"P", "E", "R", "S", "O", "N">>
    [] s = "ERROR" -> <<"E", "R", "R", "O", "R">>
    [] s = "Hi!" -> <<"H", "i", "!">>

\* String.prototype.substring(0, end) on the characters of a string.
substring(chars, end) ==
  SubSeq(chars, 1, IF Len(chars) < end THEN Len(chars) ELSE end)

\* What the continuation of detectObjects reports for the detected items:
\* the status and the texts it passes to displayOnMicrobit.
reportDetected(detectedItems) ==
  LET recyclableItems == Filter(detectedItems, LAMBDA o : isRecyclableTrash(o.class))
      nonRecyclableItems == Filter(detectedItems, LAMBDA o : isNonRecyclable(o.class))
      wrapperItems == Filter(detectedItems, LAMBDA o : isWrapper(o.class))
      foundFrog == \E i \in 1..Len(detectedItems) : isToyFrog(detectedItems[i].class)
      foundLemon == processLemonDetection(detectedItems)
      person == \E i \in 1..Len(detectedItems) : detectedItems[i].class = "person"
  IN  IF foundFrog
      THEN [status |-> Plain("Toy frog detected!"), texts |-> <<Chars("FROG")>>]
      ELSE IF foundLemon
      THEN [status |-> Plain("Lemon detected!"), texts |-> <<Chars("LEMON")>>]
      ELSE IF Len(recyclableItems) > 0
      THEN [status |-> Status("Recyclable items detected: {}!", <<>>,
                              Names(recyclableItems), 0),
            texts |-> <<substring(Chars(recyclableItems[1].class), 5)>>]
      ELSE IF Len(nonRecyclableItems) > 0
      THEN [status |-> Status("Non-recyclable items detected: {}!", <<>>,
                              Names(nonRecyclableItems), 0),
            texts |-> <<substring(Chars(nonRecyclableItems[1].class), 5)>>]
      ELSE IF Len(wrapperItems) > 0
      THEN [status |-> Status("Recyclable wrappers detected: {}!", <<>>,
                              Names(wrapperItems), 0),
            texts |-> <<Chars("WRAP")>>]
      ELSE IF Len(detectedItems) = 0
      THEN [status |-> Plain("No objects detected"), texts |-> <<Chars("NONE")>>]
      ELSE [status |-> Status("Detected {} object(s)", <<>>, <<>>, Len(detectedItems)),
            texts |-> IF person THEN <<Chars("PERSON")>>
                      ELSE <<substring(Chars(detectedItems[1].class), 5)>>]

\* The texts the catch branch of detectObjects passes to displayOnMicrobit,
\* errorCount being the count its callback captured.
reportError(capturedCount) ==
  IF capturedCount < 3 THEN <<>> ELSE <<Chars("ERROR")>>

\* ----------------------------------------------------------------- state
VARIABLES
  variant,           \* which revision of the component runs
  isStreaming,       \* useState: isStreaming (latest queued value)
  modelLoaded,       \* useState: modelLoaded
  errorCount,        \* useState: errorCount
  detectedObjects,   \* useState: detectedObjects
  recycleDetected,   \* useState: recycleDetected
  detectionStatus,   \* useState: detectionStatus
  microbitConnected, \* useState: microbitConnected
  rendered,          \* the values committed by the last render (its closures)
  renderPending,     \* a state update is queued and not yet rendered
  requestRef,        \* requestRef.current: "null", "pending" or "fired"
  detectionRunning,  \* detectionRunningRef.current
  modelRef,          \* the model: "loading", "loaded" (modelRef.current set), "failed"
  video,             \* the video element: "none", "attached", "metadata", "ready"
  camRequest,        \* a getUserMedia call is pending
  rafs,              \* pending requestAnimationFrame callbacks, oldest first
  timers,            \* pending setTimeout callbacks
  inflight,          \* pending detect() calls, oldest first
  canvas,            \* what the overlay canvas shows
  elapsed,           \* throttled loop: time since lastDetectionTimeRef, in steps
  detectionInterval, \* throttled loop: detectionIntervalRef.current, in ms
  isMobile,          \* the user agent is a mobile one
  fails,             \* history: inference failures since the last success/stop/start
  microbit,          \* the micro:bit: connection state, refs and pending writes
  fnIn,              \* input of the function under check (function specifications)
  fnOut              \* its result

vars ==
  <<variant, isStreaming, modelLoaded, errorCount, detectedObjects,
    recycleDetected, detectionStatus, microbitConnected, rendered,
    renderPending, requestRef, detectionRunning, modelRef, video, camRequest,
    rafs, timers, inflight, canvas, elapsed, detectionInterval, isMobile,
    fails, microbit, fnIn, fnOut>>

\* The component's state as one record, so that a handler is a composition
\* of the statements it executes.  freshObjects: setDetectedObjects was
\* called since the last render; microbit.wrote: the writes of this step.
World ==
  [variant |-> variant, isStreaming |-> isStreaming, modelLoaded |-> modelLoaded,
   errorCount |-> errorCount, detectedObjects |-> detectedObjects,
   recycleDetected |-> recycleDetected, detectionStatus |-> detectionStatus,
   microbitConnected |-> microbitConnected, rendered |-> rendered,
   renderPending |-> renderPending, requestRef |-> requestRef,
   detectionRunning |-> detectionRunning, modelRef |-> modelRef,
   video |-> video, camRequest |-> camRequest, rafs |-> rafs,
   timers |-> timers, inflight |-> inflight, canvas |-> canvas,
   elapsed |-> elapsed, detectionInterval |-> detectionInterval,
   isMobile |-> isMobile, fails |-> fails,
   microbit |-> [microbit EXCEPT !.wrote = "none"], freshObjects |-> FALSE]

Becomes(w) ==
  /\ variant' = w.variant
  /\ isStreaming' = w.isStreaming
  /\ modelLoaded' = w.modelLoaded
  /\ errorCount' = w.errorCount
  /\ detectedObjects' = w.detectedObjects
  /\ recycleDetected' = w.recycleDetected
  /\ detectionStatus' = w.detectionStatus
  /\ microbitConnected' = w.microbitConnected
  /\ rendered' = w.rendered
  /\ renderPending' = w.renderPending
  /\ requestRef' = w.requestRef
  /\ detectionRunning' = w.detectionRunning
  /\ modelRef' = w.modelRef
  /\ video' = w.video
  /\ camRequest' = w.camRequest
  /\ rafs' = w.rafs
  /\ timers' = w.timers
  /\ inflight' = w.inflight
  /\ canvas' = w.canvas
  /\ elapsed' = w.elapsed
  /\ detectionInterval' = w.detectionInterval
  /\ isMobile' = w.isMobile
  /\ fails' = w.fails
  /\ microbit' = w.microbit
  /\ UNCHANGED <<fnIn, fnOut>>

\* The canvas: the boxes of the snapshot drawn last, the not-trash boxes
\* drawn over them, and the inference those came from; clientWidth, the
\* width the page gives the element ("wide" or "narrow"), and layoutWidth,
\* the display width from which the throttled revision last computed the
\* scale and offsets of what it drew.
EmptyCanvas ==
  [base |-> <<>>, overlay |-> {}, overlayFrom |-> "none",
   clientWidth |-> "wide", layoutWidth |-> "wide"]

\* ctx.clearRect over the whole canvas, or the reset of the bitmap that an
\* assignment to canvas.width causes.
Cleared(cv) ==
  [cv EXCEPT !.base = <<>>, !.overlay = {}, !.overlayFrom = "none"]

\* ------------------------------------------------------- React primitives
\* setX(v): queue the value; React re-renders unless the value is unchanged.
setIsStreaming(w, v) ==
  [w EXCEPT !.isStreaming = v, !.renderPending = @ \/ (v # w.isStreaming)]

setModelLoaded(w, v) ==
  [w EXCEPT !.modelLoaded = v, !.renderPending = @ \/ (v # w.modelLoaded)]

setErrorCount(w, v) ==
  [w EXCEPT !.errorCount = v, !.renderPending = @ \/ (v # w.errorCount)]

setRecycleDetected(w, v) ==
  [w EXCEPT !.recycleDetected = v, !.renderPending = @ \/ (v # w.recycleDetected)]

setDetectionStatus(w, v) ==
  [w EXCEPT !.detectionStatus = v, !.renderPending = @ \/ (v # w.detectionStatus)]

setMicrobitConnected(w, v) ==
  [w EXCEPT !.microbitConnected = v,
            !.renderPending = @ \/ (v # w.microbitConnected)]

\* setDetectedObjects is always given a fresh array, which never equals the
\* previous one, so it always causes a render.
setDetectedObjects(w, v) ==
  [w EXCEPT !.detectedObjects = v, !.renderPending = TRUE, !.freshObjects = TRUE]

\* The values detectObjects captures from the render that creates it: its
\* dependencies, which in part_002 include microbitConnected.
ClosureOf(revision, r) ==
  IF revision = "part_002"
  THEN [isStreaming |-> r.isStreaming, modelLoaded |-> r.modelLoaded,
        errorCount |-> r.errorCount, microbitConnected |-> r.microbitConnected]
  ELSE [isStreaming |-> r.isStreaming, modelLoaded |-> r.modelLoaded,
        errorCount |-> r.errorCount]

\* The values a callback created by the current render captures.
Closure(w) == ClosureOf(w.variant, w)

\* --------------------------------------------------------- the micro:bit
MicrobitUpdateIntervalMs == 100
\* One step of the model's clock.
StepMs == 50
\* The clock of the writes saturates once the update interval has passed.
WriteGapCap == MicrobitUpdateIntervalMs \div StepMs

\* The micro:bit side of the component before the first connection:
\*   status      useState: microbitConnectionStatus
\*   connecting  useState: microbitConnecting
\*   phase       where a run of connectToMicrobit is: "none", "device"
\*               (requestDevice / gatt.connect pending), "welcome" (the
\*               welcome write pending)
\*   bluetooth   navigator.bluetooth exists
\*   buttons     the button handlers are registered on the connected link
\*   ledService  microbitServicesRef.current.ledService is set
\*   link        the GATT server is connected
\*   writes      pending writeValue calls, oldest first
\*   smileTimer  part_002: the 2 s timer that writes the smile is pending
\*   since       history: steps since the last write of each kind
\*   wrote       history: whether the last step issued a write: "none",
\*               "early" when one came less than the update interval after
\*               the write of its kind before it, else "spaced"
\*   last        history: the pattern handed to the link last, "none" once
\*               the link is lost
NoMicrobit ==
  [status |-> "Disconnected", connecting |-> FALSE, phase |-> "none",
   bluetooth |-> TRUE, buttons |-> FALSE, ledService |-> FALSE, link |-> FALSE, writes |-> <<>>, smileTimer |-> FALSE,
   since |-> [text |-> WriteGapCap, pattern |-> WriteGapCap], wrote |-> "none",
   last |-> "none"]

setMicrobitConnecting(w, v) ==
  [w EXCEPT !.microbit.connecting = v,
            !.renderPending = @ \/ (v # w.microbit.connecting)]

setMicrobitConnectionStatus(w, v) ==
  [w EXCEPT !.microbit.status = v, !.renderPending = @ \/ (v # w.microbit.status)]

\* characteristic.writeValue(data): the write is handed to the link.
writeValue(w, kind, data) ==
  [w EXCEPT !.microbit.writes = Append(@, [kind |-> kind, data |-> data]),
            !.microbit.wrote =
               IF @ = "early" \/ w.microbit.since[kind] < WriteGapCap
               THEN "early" ELSE "spaced",
            !.microbit.since[kind] = 0,
            !.microbit.last = IF kind = "pattern" THEN data ELSE @]

\* A display that shows an arrow whether or not an object is listed.
displayArrowOnMicrobit(w, r) ==
  IF ~r.microbitConnected \/ ~w.microbit.ledService
  THEN w
  ELSE writeValue(w, "pattern",
                  IF r.recycleDetected THEN "rightArrow" ELSE "leftArrow")

\* displayRecyclablePatternOnMicrobit, called by a render that committed r.
displayRecyclablePatternOnMicrobit(w, r) ==
  IF ~r.microbitConnected \/ ~w.microbit.ledService
  THEN w
  ELSE writeValue(w, "pattern",
                  IF Len(r.detectedObjects) = 0 THEN "empty"
                  ELSE IF r.recycleDetected THEN "rightArrow"
                  ELSE "leftArrow")

\* displayOnMicrobit of part_002, called by a callback with closure c.
displayOnMicrobit(w, c, text) ==
  IF ~c.microbitConnected \/ ~w.microbit.ledService
  THEN w
  ELSE writeValue(w, "text", text)

\* if (microbitConnected) displayOnMicrobit(text), for the texts of a report.
displayTexts(w, c, texts) ==
  IF Len(texts) > 0 /\ c.microbitConnected
  THEN displayOnMicrobit(w, c, texts[1])
  ELSE w

\* useEffect(..., [recycleDetected, microbitConnected, detectedObjects]) of
\* the main revision, at the commit of a render over the values old.
patternEffect(w, old) ==
  LET r == w.rendered
  IN  IF /\ w.variant = "main"
         /\ \/ r.recycleDetected # old.recycleDetected
            \/ r.microbitConnected # old.microbitConnected
            \/ w.freshObjects
         /\ r.microbitConnected
      THEN displayRecyclablePatternOnMicrobit(w, r)
      ELSE w

\* ------------------------------------------------------ browser primitives
\* Frame ids are compared only with requestRef.current, so a pending frame
\* records whether requestRef.current holds its id, and requestRef is
\*   "null"    requestRef.current is null,
\*   "pending" it holds the id of a pending frame,
\*   "fired"   it holds the id of a frame that has run.

\* requestRef.current = requestAnimationFrame(detectObjects), detectObjects
\* being the callback with closure c.
requestFrame(w, c) ==
  [w EXCEPT !.rafs = Append([i \in 1..Len(@) |-> [@[i] EXCEPT !.tracked = FALSE]],
                            [clo |-> c, tracked |-> TRUE]),
            !.requestRef = "pending"]

\* cancelAnimationFrame(requestRef.current)
cancelAnimationFrame(w) ==
  [w EXCEPT !.rafs = SelectSeq(@, LAMBDA r : ~r.tracked)]

\* The pending timers may fire in any order, so they are kept as a multiset:
\* a sequence in a fixed order of its elements.
TimerKey(t) ==
  t.delay * 100 + t.clo.errorCount * 4
    + (IF t.clo.isStreaming THEN 2 ELSE 0) + (IF t.clo.modelLoaded THEN 1 ELSE 0)
    + (IF "microbitConnected" \in DOMAIN t.clo /\ t.clo.microbitConnected
       THEN 50 ELSE 0)

InsertTimer(ts, t) ==
  LET before == SelectSeq(ts, LAMBDA u : TimerKey(u) <= TimerKey(t))
      after == SelectSeq(ts, LAMBDA u : TimerKey(u) > TimerKey(t))
  IN  before \o <<t>> \o after

\* setTimeout(() => { if (isStreaming) requestRef.current = rAF(detectObjects) }, delay)
\* created in a scope with closure c.
setTimeoutRearm(w, c, delay) ==
  [w EXCEPT !.timers = InsertTimer(@, [clo |-> c, delay |-> delay])]

\* ------------------------------------------------------------ time (ms)
StartDelayMs == 500
MainBackoffMs == 500
ThrottledBackoffMs == 100
InitialIntervalMs == 150
MobileIntervalMs == 100
DesktopIntervalMs == 50
\* The clock saturates once the longest interval has passed.
ElapsedCap == InitialIntervalMs \div StepMs

\* ------------------------------------------------------------- the effects
\* useEffect(..., [isStreaming, modelLoaded, detectObjects]): the cleanup of
\* the previous run, then the body, at the commit of a render with closure c.
loopEffect(w, c) ==
  LET cleaned ==
        IF w.requestRef # "null"
        THEN [cancelAnimationFrame(w) EXCEPT !.requestRef = "null"]
        ELSE w
  IN  IF c.isStreaming /\ c.modelLoaded
      THEN setTimeoutRearm(
             [setErrorCount(cleaned, 0) EXCEPT !.detectionRunning = FALSE],
             c, StartDelayMs)
      ELSE cleaned

\* useEffect(..., [isStreaming, modelLoaded]) of the throttled revision.
intervalEffect(w, c) ==
  IF w.variant = "throttled" /\ c.isStreaming /\ c.modelLoaded
  THEN [w EXCEPT !.detectionInterval =
                   IF w.isMobile THEN MobileIntervalMs ELSE DesktopIntervalMs]
  ELSE w

\* What a render commits.
Committed(w) ==
  [isStreaming |-> w.isStreaming, modelLoaded |-> w.modelLoaded,
   errorCount |-> w.errorCount, detectedObjects |-> w.detectedObjects,
   recycleDetected |-> w.recycleDetected,
   microbitConnected |-> w.microbitConnected]

\* A render: commit the queued state, recreate detectObjects when one of
\* [isStreaming, modelLoaded, errorCount] changed, run the effects whose
\* dependencies changed.
render(w) ==
  LET c == Closure(w)
      old == ClosureOf(w.variant, w.rendered)
      w1 == [w EXCEPT !.rendered = Committed(w), !.renderPending = FALSE]
      w2 == IF c # old THEN loopEffect(w1, c) ELSE w1
      w3 == [patternEffect(w2, w.rendered) EXCEPT !.freshObjects = FALSE]
  IN  IF c.isStreaming # old.isStreaming \/ c.modelLoaded # old.modelLoaded
      THEN intervalEffect(w3, c)
      ELSE w3

\* --------------------------------------------------------- detection loop
\* A pending model.detect(): the loop's call, with the closure of its
\* continuation, or the call of drawDetections.  stale: a snapshot was
\* published after the call started.
LoopCall(c) == [kind |-> "loop", clo |-> c, stale |-> FALSE]
DrawCall == [kind |-> "draw", stale |-> FALSE]

Threads(w) ==
  Len(w.timers) + Len(w.rafs)
    + Len(Filter(w.inflight, LAMBDA f : f.kind = "loop"))

\* A guard that does not look at the in-flight flag.
tickSkipsIgnoringFlag(w, c) == ~c.isStreaming \/ w.modelRef # "loaded"

\* The guard at the head of detectObjects.
tickSkips(w, c) ==
  w.detectionRunning \/ ~c.isStreaming \/ w.modelRef # "loaded"

\* A throttle that lets every tick through.
tickNeverThrottled(w) == FALSE

\* The throttle of the throttled revision.
tickThrottled(w) ==
  w.variant = "throttled" /\ w.elapsed * StepMs < w.detectionInterval

\* videoRef.current.readyState < 2
frameNotReady(w) == w.video # "ready"

\* detectObjects, up to the call of model.detect, run as the animation-frame
\* callback of a render with closure c.
detectObjects(w, c) ==
  IF tickSkips(w, c)
  THEN IF c.isStreaming /\ c.modelLoaded THEN requestFrame(w, c) ELSE w
  ELSE IF tickThrottled(w)
  THEN requestFrame(w, c)
  ELSE LET w1 == IF w.variant = "throttled" THEN [w EXCEPT !.elapsed = 0] ELSE w
       IN  IF frameNotReady(w1)
           THEN requestFrame([w1 EXCEPT !.detectionRunning = FALSE], c)
           ELSE [w1 EXCEPT !.detectionRunning = TRUE,
                           !.inflight = Append(@, LoopCall(c))]

\* drawDetections: size and clear the canvas, draw the boxes; the main
\* revision then starts a second inference for the not-trash boxes, the
\* throttled one draws them from the same predictions, part_002 draws every
\* detected item as one list.
drawDetections(w, c, objects, allPredictions) ==
  IF w.variant = "part_002"
  THEN [w EXCEPT !.canvas = [Cleared(@) EXCEPT !.base = objects]]
  ELSE IF w.variant = "main"
  THEN [w EXCEPT !.canvas = [Cleared(@) EXCEPT !.base = objects],
                 !.inflight = IF w.modelRef = "loaded"
                              THEN Append(@, DrawCall) ELSE @]
  ELSE IF w.video \in {"none", "attached"}
  THEN w
  ELSE [w EXCEPT !.canvas = [@ EXCEPT !.base = objects,
                                      !.overlay = Range(notTrashOf(allPredictions)),
                                      !.overlayFrom = "same",
                                      !.layoutWidth = w.canvas.clientWidth]]

\* The continuation of detectObjects of part_002 after model.detect
\* resolved.
onDetectedText(w, c, predictions) ==
  LET w0 == IF c.errorCount > 0 THEN setErrorCount(w, 0) ELSE w
      detectedItems == processDetections(predictions)
      recyclableItems == Filter(detectedItems, LAMBDA o : isRecyclableTrash(o.class))
      wrapperItems == Filter(detectedItems, LAMBDA o : isWrapper(o.class))
      report == reportDetected(detectedItems)
      w1 == setDetectedObjects(w0, detectedItems)
      w2 == setRecycleDetected(w1, Len(recyclableItems) > 0 \/ Len(wrapperItems) > 0)
      w3 == setDetectionStatus(w2, report.status)
      w4 == displayTexts(w3, c, report.texts)
      w5 == drawDetections(w4, c, detectedItems, detectedItems)
      w6 == [w5 EXCEPT !.detectionRunning = FALSE]
  IN  IF c.isStreaming THEN requestFrame(w6, c) ELSE w6

\* The continuation of detectObjects after model.detect resolved.
onDetected(w, c, predictions) ==
  IF w.variant = "part_002"
  THEN onDetectedText(w, c, predictions)
  ELSE
  LET w0 == IF w.variant = "main" /\ c.errorCount > 0
            THEN setErrorCount(w, 0) ELSE w
      allDetectedItems == processDetections(predictions)
      trashItems == trashOf(allDetectedItems)
      recyclableItems == recyclableOf(trashItems)
      w1 == setDetectedObjects(w0, trashItems)
      w2 == setRecycleDetected(w1, Len(recyclableItems) > 0)
      w3 == setDetectionStatus(w2, ComposeStatus(allDetectedItems))
      w4 == drawDetections(w3, c, trashItems, allDetectedItems)
      w5 == [w4 EXCEPT !.detectionRunning = FALSE]
  IN  IF c.isStreaming THEN requestFrame(w5, c) ELSE w5

backoffMs(w) ==
  IF w.variant = "throttled" THEN ThrottledBackoffMs ELSE MainBackoffMs

\* A catch branch that also clears what was published.
onDetectErrorClearing(w, c) ==
  LET w1 == setErrorCount(w, w.errorCount + 1)
      w2 == setDetectionStatus(w1, Plain("Detection error, retrying..."))
      w3 == setDetectedObjects(w2, <<>>)
  IN  [w3 EXCEPT !.detectionRunning = FALSE, !.canvas = Cleared(@)]

\* The catch branch of detectObjects.
onDetectError(w, c) ==
  LET w1 == setErrorCount(w, w.errorCount + 1)
      w2 == setDetectionStatus(w1,
              IF c.errorCount < 3 THEN Plain("Detection error, retrying...")
              ELSE Plain("Detection error occurred"))
      w2t == IF w.variant = "part_002"
             THEN displayTexts(w2, c, reportError(c.errorCount)) ELSE w2
      w3 == [w2t EXCEPT !.detectionRunning = FALSE]
  IN  IF c.errorCount < 5 /\ c.isStreaming
      THEN setTimeoutRearm(w3, c, c.errorCount * backoffMs(w))
      ELSE w3

\* The second inference of drawDetections resolved.
onNotTrashDetected(w, call, predictions) ==
  LET notTrashObjects ==
        processDetections(Filter(predictions, LAMBDA p : isNotTrash(p.class)))
  IN  IF Len(notTrashObjects) > 0
      THEN [w EXCEPT !.canvas.overlay = @ \cup Range(notTrashObjects),
                     !.canvas.overlayFrom =
                        IF call.stale THEN "older" ELSE "unpublished"]
      ELSE w

clearCanvas(w) == [w EXCEPT !.canvas = Cleared(@)]

\* ------------------------------------------------------------- start/stop
\* A stop that flips isStreaming instead of clearing it.
stopWebcamToggling(w) ==
  setIsStreaming([w EXCEPT !.video = "none"], ~w.isStreaming)

stopWebcam(w) ==
  IF w.video # "none"
  THEN LET w1 == [w EXCEPT !.video = "none"]
           w2 == setIsStreaming(w1, FALSE)
           w3 == setDetectionStatus(w2, Plain("Webcam stopped"))
           w4 == setDetectedObjects(w3, <<>>)
           w5 == clearCanvas(w4)
           w6 == setErrorCount(w5, 0)
       IN  setRecycleDetected(w6, FALSE)
  ELSE w

\* videoRef.current.onloadedmetadata
onloadedmetadata(w) ==
  LET w1 == setDetectedObjects(setIsStreaming(w, TRUE), <<>>)
  IN  IF w.variant = "throttled" THEN clearCanvas(w1) ELSE w1

\* The micro:bit button handlers: a press toggles isStreaming.
onButtonPressed(w) == setIsStreaming(w, ~w.isStreaming)

\* React renders after a handler until no update is queued: an effect that
\* sets state causes one more render.
settle(w) ==
  LET r1 == IF w.renderPending THEN render(w) ELSE w
      r2 == IF r1.renderPending THEN render(r1) ELSE r1
  IN  IF r2.renderPending THEN render(r2) ELSE r2

\* A step of the component: a handler runs, then React renders.  The step
\* is explored only while it leaves at most MaxThreads ticks pending, or no
\* more than before, and at most MaxWrites writes.
Handled(w) ==
  LET after == settle(w)
  IN  /\ Threads(after) <= MaxThreads \/ Threads(after) <= Threads(World)
      /\ Len(after.microbit.writes) <= MaxWrites
      /\ Becomes(after)

\* ---------------------------------------------------------------- inputs
\* What the camera may be looking at when an inference runs.
Scenes ==
  {<<>>,
   <<Pred("banana", 614, 20)>>,
   <<Pred("person", 950, 200), Pred("bottle", 745, 100)>>}

\* ------------------------------------------------------------------ Init
InitComponent(v, mobile, bluetooth) ==
  /\ variant = v
  /\ isMobile = mobile
  /\ isStreaming = FALSE
  /\ modelLoaded = FALSE
  /\ errorCount = 0
  /\ detectedObjects = <<>>
  /\ recycleDetected = FALSE
  /\ detectionStatus = Plain("Loading model...")
  /\ microbitConnected = FALSE
  /\ rendered = [isStreaming |-> FALSE, modelLoaded |-> FALSE, errorCount |-> 0,
                 detectedObjects |-> <<>>, recycleDetected |-> FALSE,
                 microbitConnected |-> FALSE]
  /\ renderPending = FALSE
  /\ requestRef = "null"
  /\ detectionRunning = FALSE
  /\ modelRef = "loading"
  /\ video = "none"
  /\ camRequest = FALSE
  /\ rafs = <<>>
  /\ timers = <<>>
  /\ inflight = <<>>
  /\ canvas = EmptyCanvas
  /\ elapsed = ElapsedCap
  /\ detectionInterval = InitialIntervalMs
  /\ fails = 0
  /\ microbit = [NoMicrobit EXCEPT !.bluetooth = bluetooth]

\* The component in a browser with Web Bluetooth.
InitWorld(v, mobile) == InitComponent(v, mobile, TRUE)

Init ==
  /\ \/ InitWorld("main", FALSE)
     \/ \E mobile \in BOOLEAN : InitWorld("throttled", mobile)
  /\ fnIn = <<>>
  /\ fnOut = Plain("none")

\* --------------------------------------------------------------- actions
\* loadModel() resolved: cocoSsd.load succeeded.
ModelLoadResolve ==
  /\ modelRef = "loading"
  /\ LET w1 == [World EXCEPT !.modelRef = "loaded"]
         w2 == setModelLoaded(w1, TRUE)
         w3 == setDetectionStatus(w2,
                 IF variant = "throttled"
                 THEN Plain("Model loaded. Ready to start.")
                 ELSE Plain("Model loaded. Click Start to begin."))
     IN  Handled(w3)

\* loadModel() failed.
ModelLoadReject ==
  /\ modelRef = "loading"
  /\ Handled(setDetectionStatus([World EXCEPT !.modelRef = "failed"],
                                Plain("Error loading model: {}")))

\* A pending timeout fires: if (isStreaming) requestRef.current = rAF(detectObjects).
TimerFire ==
  \E i \in 1..Len(timers) :
    LET c == timers[i].clo
        w1 == [World EXCEPT !.timers = RemoveAt(@, i)]
    IN  Handled(IF c.isStreaming THEN requestFrame(w1, c) ELSE w1)

\* The oldest pending animation frame fires: detectObjects runs.
Tick ==
  /\ rafs # <<>>
  /\ LET c == Head(rafs).clo
         w1 == [World EXCEPT !.rafs = Tail(@),
                             !.requestRef = IF Head(rafs).tracked
                                            THEN "fired" ELSE @]
         w2 == detectObjects(w1, c)
     IN  /\ Len(w2.inflight) <= MaxInflight
         /\ Handled(w2)

\* A pending model.detect() of the loop resolves with the predictions of a scene.
DetectResolve ==
  \E i \in 1..Len(inflight), scene \in Scenes :
    /\ inflight[i].kind = "loop"
    /\ LET rest == RemoveAt(inflight, i)
           w1 == [World EXCEPT
                    !.inflight = [j \in 1..Len(rest) |->
                                   IF rest[j].kind = "draw"
                                   THEN [rest[j] EXCEPT !.stale = TRUE]
                                   ELSE rest[j]],
                    !.fails = 0]
       IN  Handled(onDetected(w1, inflight[i].clo, scene))

\* A pending model.detect() of the loop rejects.
DetectReject ==
  \E i \in 1..Len(inflight) :
    /\ inflight[i].kind = "loop"
    /\ fails < MaxErr
    /\ errorCount < MaxErr
    /\ LET w1 == [World EXCEPT !.inflight = RemoveAt(@, i), !.fails = @ + 1]
       IN  Handled(onDetectError(w1, inflight[i].clo))

\* The inference started by drawDetections resolves.
NotTrashResolve ==
  \E i \in 1..Len(inflight), scene \in Scenes :
    /\ inflight[i].kind = "draw"
    /\ LET w1 == [World EXCEPT !.inflight = RemoveAt(@, i)]
       IN  Handled(onNotTrashDetected(w1, inflight[i], scene))

\* The inference started by drawDetections rejects: the error is logged.
NotTrashReject ==
  \E i \in 1..Len(inflight) :
    /\ inflight[i].kind = "draw"
    /\ Handled([World EXCEPT !.inflight = RemoveAt(@, i)])

\* The user starts the camera: the Start button of the main revision, the
\* toggle button of the throttled one while the rendered isStreaming is false.
ClickStart ==
  /\ ~rendered.isStreaming
  /\ rendered.modelLoaded
  /\ ~camRequest
  /\ LET w1 == setDetectionStatus(World, Plain("Starting camera..."))
     IN  Handled(([w1 EXCEPT !.camRequest = TRUE]))

\* getUserMedia resolved: the stream is attached to the video element.
CameraGranted ==
  /\ camRequest
  /\ Handled([World EXCEPT !.camRequest = FALSE, !.video = "attached"])

\* A refusal after which the camera is requested again.
CameraDeniedRetrying ==
  /\ camRequest
  /\ Handled(setDetectionStatus(World, Plain("Error accessing webcam")))

\* getUserMedia rejected.
CameraDenied ==
  /\ camRequest
  /\ Handled(setDetectionStatus([World EXCEPT !.camRequest = FALSE],
                                Plain("Error accessing webcam")))

\* The video element has loaded the stream's metadata.
LoadedMetadata ==
  /\ video = "attached"
  /\ Handled(onloadedmetadata([World EXCEPT !.video = "metadata", !.fails = 0]))

\* The video element has a current frame (readyState >= 2).
FrameReady ==
  /\ video = "metadata"
  /\ Handled([World EXCEPT !.video = "ready"])

\* The user stops the camera: the Stop button, or the toggle button while
\* the rendered isStreaming is true.
ClickStop ==
  /\ rendered.isStreaming
  /\ Handled((stopWebcam([World EXCEPT !.fails = 0])))

\* An end of the run that leaves microbitConnecting as it is.
connectedStillConnecting(w, led) ==
  LET w1 == [w EXCEPT !.microbit.ledService = led, !.microbit.phase = "none"]
      w2 == setMicrobitConnected(w1, TRUE)
  IN  setMicrobitConnectionStatus(w2, "Connected")

\* The end of a successful run of connectToMicrobit: the services are
\* stored, the disconnect listener is registered, the state is set.
connected(w, led) ==
  LET w1 == [w EXCEPT !.microbit.ledService = led, !.microbit.phase = "none"]
      w2 == setMicrobitConnected(w1, TRUE)
      w3 == setMicrobitConnectionStatus(w2, "Connected")
  IN  setMicrobitConnecting(w3, FALSE)

\* The gattserverdisconnected listener, and disconnectFromMicrobit after its
\* guard: both set the same state.
disconnected(w) ==
  LET w1 == setMicrobitConnected([w EXCEPT !.microbit.link = FALSE,
                                           !.microbit.buttons = FALSE,
                                           !.microbit.last = "none"], FALSE)
  IN  setMicrobitConnectionStatus(w1, "Disconnected")

\* A catch block that counts the failed write as a detection error.
onWriteErrorCounted(w) == setErrorCount(w, w.errorCount + 1)

\* The catch block around a write: the error is logged.
onWriteError(w) == w

\* connectToMicrobit succeeded on a micro:bit whose LED service could not
\* be set up; the button handlers are registered.
MicrobitConnect ==
  /\ variant # "throttled"
  /\ ~microbitConnected
  /\ microbit.phase = "none"
  /\ Handled(connected([World EXCEPT !.microbit.link = TRUE,
                                     !.microbit.buttons = TRUE], FALSE))

\* The micro:bit link is lost, or the user disconnects.
MicrobitDisconnect ==
  /\ variant # "throttled"
  /\ microbitConnected
  /\ microbit.link
  /\ microbit.phase = "none"
  /\ Handled(disconnected(World))

\* Button A or B of the connected micro:bit is pressed.
ButtonPressed ==
  /\ variant # "throttled"
  /\ microbitConnected
  /\ microbit.link
  /\ microbit.buttons
  /\ Handled(onButtonPressed([World EXCEPT !.fails = 0]))

\* Time passes (throttled revision).
Elapse ==
  /\ variant = "throttled"
  /\ elapsed < ElapsedCap
  /\ Handled([World EXCEPT !.elapsed = @ + 1])

Next ==
  \/ ModelLoadResolve
  \/ ModelLoadReject
  \/ TimerFire
  \/ Tick
  \/ DetectResolve
  \/ DetectReject
  \/ NotTrashResolve
  \/ NotTrashReject
  \/ ClickStart
  \/ CameraGranted
  \/ CameraDenied
  \/ LoadedMetadata
  \/ FrameReady
  \/ ClickStop
  \/ MicrobitConnect
  \/ ButtonPressed
  \/ Elapse

\* The free interleaving of the user, the camera, the model and the buttons
\* of the micro:bit.  The loss of the link (MicrobitDisconnect) leaves the
\* loop as it is and is explored in MicrobitSpec and ConnectSpec.
Spec == Init /\ [][Next]_vars

\* ---------------------------------------------------------- failure burst
\* The same component under one schedule: inferences fail or succeed in
\* quick succession, so the zero-delay retry timer always fires before the
\* 500 ms start timers that the re-run effect leaves behind.

\* The timer with the shortest delay fires, once the loop has nothing else
\* pending.
BurstTimer ==
  /\ timers # <<>>
  /\ rafs = <<>>
  /\ \A i \in 1..Len(inflight) : inflight[i].kind # "loop"
  /\ LET c == Head(timers).clo
         w1 == [World EXCEPT !.timers = Tail(@)]
     IN  Becomes(settle(IF c.isStreaming THEN requestFrame(w1, c) ELSE w1))

\* A pending model.detect() of the loop rejects.
BurstReject ==
  \E i \in 1..Len(inflight) :
    /\ inflight[i].kind = "loop"
    /\ fails < MaxStreak
    /\ errorCount < MaxStreak
    /\ LET w1 == [World EXCEPT !.inflight = RemoveAt(@, i), !.fails = @ + 1]
           after == settle(onDetectError(w1, inflight[i].clo))
       IN  /\ Threads(after) <= MaxBurstThreads
           /\ Becomes(after)

BurstNext ==
  \/ ModelLoadResolve
  \/ ClickStart
  \/ CameraGranted
  \/ LoadedMetadata
  \/ FrameReady
  \/ Elapse
  \/ BurstTimer
  \/ Tick
  \/ DetectResolve
  \/ BurstReject
  \/ NotTrashResolve

BurstSpec == Init /\ [][BurstNext]_vars

\* ------------------------------------------------------ status composition
\* The status composition as a function: the input is any list of up to
\* MaxDet predictions over labels of every class of the tables.
StatusLabels ==
  {"person", "Person", "dog", "bottle", "Bottle", "book", "banana"}

StatusInputs ==
  SeqsUpTo({Pred(c, 614, 20) : c \in StatusLabels}, MaxDet)

StatusInit ==
  /\ InitWorld("main", FALSE)
  /\ fnIn \in StatusInputs
  /\ fnOut = Plain("none")

\* detectObjects composes the status of the predictions it was given.
Compose ==
  /\ fnOut = Plain("none")
  /\ fnOut' = ComposeStatus(processDetections(fnIn))
  /\ UNCHANGED <<variant, isStreaming, modelLoaded, errorCount, detectedObjects,
                 recycleDetected, detectionStatus, microbitConnected, rendered,
                 renderPending, requestRef, detectionRunning, modelRef, video,
                 camRequest, rafs, timers, inflight, canvas, elapsed,
                 detectionInterval, isMobile, fails, microbit, fnIn>>

StatusNext == Compose

StatusSpec == StatusInit /\ [][StatusNext]_vars

\* ------------------------------------------------------------ properties
LoopCalls(w) == Filter(w.inflight, LAMBDA f : f.kind = "loop")

\* C1: in every reachable state at most one call of model.detect() is
\* pending, counting the loop's call and the call made by drawDetections.
C1_AtMostOneDetectPending == Len(inflight) <= 1

\* C2: while the stream is stopped no tick is scheduled: no animation frame
\* is pending and no pending timer would request one.
C2_NoTickAfterStop ==
  ~isStreaming =>
    /\ rafs = <<>>
    /\ \A i \in 1..Len(timers) : ~timers[i].clo.isStreaming

\* C3: an inference that resolves while the stream is stopped is discarded:
\* the published state and the canvas stay as they are and no tick is armed.
C3_LateResultDiscarded ==
  [][(DetectResolve /\ ~isStreaming) =>
       /\ detectedObjects' = detectedObjects
       /\ recycleDetected' = recycleDetected
       /\ detectionStatus' = detectionStatus
       /\ canvas' = canvas
       /\ rafs' = rafs]_vars

\* C4: snapshots are published in the order their inferences started, and
\* what is drawn over the snapshot's boxes comes from the inference of the
\* snapshot published last.
C4_OverlayFromLatestSnapshot ==
  /\ Len(LoopCalls(World)) <= 1
  /\ canvas.overlayFrom \in {"none", "same"}

\* C5: what a render shows is one snapshot: recycleDetected is the flag of
\* the objects in detectedObjects, as every inference pass and every stop
\* set them together.
C5_SnapshotAtomic ==
  rendered.recycleDetected = (Len(recyclableOf(rendered.detectedObjects)) > 0)

\* C6: a failed inference publishes nothing: detectedObjects,
\* recycleDetected and the canvas are unchanged, and the status is the error
\* message, not a status composed from detections.
C6_FailurePublishesNothing ==
  [][BurstReject =>
       /\ detectedObjects' = detectedObjects
       /\ recycleDetected' = recycleDetected
       /\ canvas' = canvas
       /\ detectionStatus' \in {Plain("Detection error, retrying..."),
                                 Plain("Detection error occurred")}]_vars

\* C6 witness: the last inference of the session failed while a snapshot
\* with objects was published and drawn.
C6_Witness ==
  /\ fails > 0
  /\ isStreaming
  /\ detectedObjects # <<>>
  /\ canvas.base # <<>>
  /\ detectionStatus = Plain("Detection error, retrying...")

\* C7: after 5 inference failures in a row in one streaming session the
\* error count is 5 and no tick is armed.
C7_TerminalAfterFiveFailures ==
  (isStreaming /\ fails >= 5) =>
    /\ errorCount = 5
    /\ Threads(World) = 0

\* C8: in a streaming session the error count equals the number of
\* inference failures since the last success, stop or start.
C8_CountEqualsFailures == isStreaming => errorCount = fails

\* C9: after every successful inference the error count is 0.
C9_SuccessClearsCount == [][DetectResolve => errorCount' = 0]_vars

\* C10: the composed status follows the first matching case: a not-trash
\* object is present (reported with the recyclable items, else with
\* "non-recyclable items" when another object is present, else alone);
\* recyclable items; no object; non-recyclable items only.  It is a function
\* of the predictions alone.
C10_StatusPriority ==
  fnOut # Plain("none") =>
    LET all == processDetections(fnIn)
        ignored == {i \in 1..Len(all) : isNotTrash(all[i].class)}
        others == (1..Len(all)) \ ignored
        recyclable == {i \in others : isRecyclable(all[i].class)}
        NamesAt(S) == Names(SelectSeq(all, LAMBDA o : \E i \in S : all[i] = o))
    IN  IF ignored # {}
        THEN /\ fnOut.names = NamesAt(ignored)
             /\ IF recyclable # {}
                THEN /\ fnOut.kind = "Detected: {} (not trash) and recyclable items: {}"
                     /\ fnOut.items = NamesAt(recyclable)
                ELSE IF others # {}
                THEN fnOut.kind = "Detected: {} (not trash) and non-recyclable items"
                ELSE fnOut.kind = "Detected: {} (not trash)"
        ELSE IF recyclable # {}
        THEN /\ fnOut.kind = "Recyclable items detected: {}!"
             /\ fnOut.items = NamesAt(recyclable)
        ELSE IF Len(all) = 0
        THEN fnOut = Plain("No objects detected")
        ELSE /\ fnOut.kind = "No recyclable items found among {} detected object(s)"
             /\ fnOut.count = Len(all)

\* C10 witness: a person and a bottle in one snapshot are reported by the
\* first case, the not-trash object together with the recyclable item.
C10_Witness ==
  /\ Names(fnIn) = <<"Bottle", "Person">>
  /\ fnOut = Status("Detected: {} (not trash) and recyclable items: {}",
                    <<"Person">>, <<"Bottle">>, 0)

\* C1 witness: the call of drawDetections and the next call of the loop are
\* pending together.
C1_Witness ==
  /\ Len(inflight) = 2
  /\ inflight[1].kind = "draw"
  /\ inflight[2].kind = "loop"

\* C5 witness: the render shows no objects with the recyclable flag set.
C5_Witness ==
  /\ rendered.recycleDetected
  /\ rendered.detectedObjects = <<>>

\* C7 witness: five failures in a row in one session, and a tick is armed.
C7_Witness ==
  /\ isStreaming
  /\ fails = 5
  /\ errorCount = 0
  /\ timers # <<>>

\* ==================================================== snapshot publication
\* The state variables of the component, left alone by the steps that only
\* evaluate a function of it.
programVars ==
  <<variant, isStreaming, modelLoaded, errorCount, detectedObjects,
    recycleDetected, detectionStatus, microbitConnected, rendered,
    renderPending, requestRef, detectionRunning, modelRef, video, camRequest,
    rafs, timers, inflight, canvas, elapsed, detectionInterval, isMobile,
    fails, microbit>>

\* What the continuation of detectObjects publishes for given predictions.
Snapshot(predictions) ==
  LET w == onDetected(World, Closure(World), predictions)
  IN  [detectedObjects |-> w.detectedObjects,
       recycleDetected |-> w.recycleDetected,
       detectionStatus |-> w.detectionStatus]

SnapshotInit ==
  /\ InitWorld("main", FALSE) \/ InitWorld("throttled", FALSE)
  /\ fnIn \in StatusInputs
  /\ fnOut = Plain("none")

\* model.detect resolved with the predictions fnIn.
Publish ==
  /\ fnOut = Plain("none")
  /\ fnOut' = Snapshot(fnIn)
  /\ UNCHANGED <<programVars, fnIn>>

SnapshotNext == Publish

SnapshotSpec == SnapshotInit /\ [][SnapshotNext]_vars

\* C11: recycleDetected is true exactly when a detection has a recyclable
\* label that is not ignored; the status then names each such label; a
\* snapshot of ignored labels only has recycleDetected false, a status that
\* marks them "(not trash)" and no detected object.
C11_SnapshotFlags ==
  fnOut # Plain("none") =>
    LET Lower(i) == toLowerCase(fnIn[i].class)
        ignored == {i \in 1..Len(fnIn) : Lower(i) \in NOT_TRASH_ITEMS}
        counted == {i \in (1..Len(fnIn)) \ ignored :
                      Lower(i) \in RECYCLABLE_TRASH_ITEMS \cup WRAPPER_LIKE_ITEMS}
    IN  /\ fnOut.recycleDetected = (counted # {})
        /\ \A i \in counted :
             \E j \in 1..Len(fnOut.detectionStatus.items) :
               fnOut.detectionStatus.items[j] = fnIn[i].class
        /\ (fnIn # <<>> /\ ignored = 1..Len(fnIn)) =>
             /\ ~fnOut.recycleDetected
             /\ fnOut.detectedObjects = <<>>
             /\ fnOut.detectionStatus.kind = "Detected: {} (not trash)"
             /\ fnOut.detectionStatus.names = Names(fnIn)

\* C11 witness: a person and a bottle were detected; the snapshot holds the
\* bottle only, the flag is set and the status names the bottle.
C11_Witness ==
  /\ Names(fnIn) = <<"person", "bottle">>
  /\ fnOut # Plain("none")
  /\ fnOut.recycleDetected
  /\ Names(fnOut.detectedObjects) = <<"bottle">>
  /\ fnOut.detectionStatus.items = <<"bottle">>

\* ====================================================== classification tables
\* The lists of each revision's classification table; the older micro:bit
\* revision (src/unnamed/part_002) has six.
\* The lists of a revision's classification table.
TableLists(revision) ==
  IF revision = "part_002"
  THEN <<RECYCLABLE_TRASH_ITEMS, NON_RECYCLABLE_TRASH_ITEMS, FROG_PROXY_CLASSES,
         LEMON_PROXY_CLASSES, WRAPPER_LIKE_ITEMS, TOY_FROG_CLASSES>>
  ELSE <<RECYCLABLE_TRASH_ITEMS, WRAPPER_LIKE_ITEMS, NOT_TRASH_ITEMS>>

TableLabels(revision) == UNION Range(TableLists(revision))

\* The lists whose includes(label) is true.
ListsHolding(revision, label) ==
  {i \in 1..Len(TableLists(revision)) : label \in TableLists(revision)[i]}

TableInit ==
  /\ InitWorld("main", FALSE)
  /\ \E revision \in {"main", "part_002"} :
       \E label \in TableLabels(revision) :
         fnIn = [revision |-> revision, label |-> label]
  /\ fnOut = Plain("none")

\* A label is looked up in every list of the table.
Lookup ==
  /\ fnOut = Plain("none")
  /\ fnOut' = [lists |-> ListsHolding(fnIn.revision, fnIn.label)]
  /\ UNCHANGED <<programVars, fnIn>>

TableNext == Lookup

TableSpec == TableInit /\ [][TableNext]_vars

\* C12: every label of the classification table is in exactly one of the
\* table's lists.
C12_OneListPerLabel ==
  fnOut # Plain("none") => Cardinality(fnOut.lists) = 1

\* C12 witness: "book" is looked up and found in two lists of the table.
C12_Witness ==
  /\ fnIn = [revision |-> "main", label |-> "book"]
  /\ fnOut = [lists |-> {1, 2}]

\* ================================================================ stopping
\* C13: stopWebcam called twice in a row leaves the state the first call
\* left: isStreaming, the error count, the in-flight flag, the pending
\* ticks, detectedObjects, recycleDetected and the status.
C13_StopIdempotent ==
  LET once == settle(stopWebcam(World))
  IN  settle(stopWebcam(once)) = once

\* C13 witness: the camera was stopped while a tick was pending; a second
\* stopWebcam finds srcObject null.
C13_Witness ==
  /\ video = "none"
  /\ ~isStreaming
  /\ detectionStatus = Plain("Webcam stopped")
  /\ timers # <<>>

\* C14: a stop request resets the whole loop state: isStreaming false, error
\* count 0, in-flight flag false, no tick scheduled, detectedObjects empty,
\* recycleDetected false.
C14_StopResetsLoopState ==
  [][ClickStop =>
       /\ ~isStreaming'
       /\ errorCount' = 0
       /\ ~detectionRunning'
       /\ rafs' = <<>>
       /\ timers' = <<>>
       /\ detectedObjects' = <<>>
       /\ ~recycleDetected']_vars

\* C14 witness: the camera was stopped during an inference; the in-flight
\* flag is still set and a timer is still pending.
C14_Witness ==
  /\ video = "none"
  /\ ~isStreaming
  /\ detectionStatus = Plain("Webcam stopped")
  /\ detectionRunning
  /\ Len(LoopCalls(World)) = 1

\* C15: whenever isStreaming goes from true to false the camera is released:
\* the video element has no stream.
C15_StopReleasesCamera ==
  [][(isStreaming /\ ~isStreaming') => video' = "none"]_vars

\* ================================================================ throttle
\* C16: in the throttled revision a tick that fires less than the detection
\* interval after the last detection time only re-arms the frame, so an
\* inference starts only when the interval in force has passed since the
\* last one.
C16_ThrottleSpacing ==
  [][variant = "throttled" =>
       LET early == elapsed * StepMs < detectionInterval
           Calls(s) == Len(SelectSeq(s, LAMBDA f : f.kind = "loop"))
       IN  /\ (Tick /\ early) =>
                /\ inflight' = inflight
                /\ Len(rafs') = Len(rafs)
                /\ elapsed' = elapsed
           /\ Calls(inflight') > Calls(inflight) => (~early /\ elapsed' = 0)]_vars

\* C16 witness: after the interval was lowered to 50 ms and a first
\* inference had published objects, the next inference has just started.
C16_Witness ==
  /\ variant = "throttled"
  /\ detectionInterval = DesktopIntervalMs
  /\ detectedObjects # <<>>
  /\ Len(LoopCalls(World)) = 1
  /\ elapsed = 0

\* ================================================================ renderer
\* JavaScript numbers of the renderer, kept as exact fractions n/d in lowest
\* terms with d > 0.
Abs(i) == IF i < 0 THEN -i ELSE i

RECURSIVE Gcd(_, _)
Gcd(a, b) == IF b = 0 THEN a ELSE Gcd(b, a % b)

Num(n, d) ==
  LET g == Gcd(Abs(n), Abs(d))
      sign == IF d < 0 THEN -1 ELSE 1
  IN  [n |-> (sign * n) \div g, d |-> (sign * d) \div g]

Whole(i) == [n |-> i, d |-> 1]

Add(a, b) == Num(a.n * b.d + b.n * a.d, a.d * b.d)
Sub(a, b) == Num(a.n * b.d - b.n * a.d, a.d * b.d)
Mul(a, b) == Num(a.n * b.n, a.d * b.d)
Div(a, b) == Num(a.n * b.d, a.d * b.n)
Less(a, b) == a.n * b.d < b.n * a.d

\* The smaller of two numbers.
MathMin(a, b) == IF Less(b, a) THEN b ELSE a

\* Math.max
MathMax(a, b) == IF Less(a, b) THEN b ELSE a

\* Scale and centring offsets of drawDetections (throttled revision).
coverLayout(videoWidth, videoHeight, displayWidth, displayHeight) ==
  LET scaleX == Div(Whole(displayWidth), Whole(videoWidth))
      scaleY == Div(Whole(displayHeight), Whole(videoHeight))
      scale == MathMax(scaleX, scaleY)
  IN  [scale |-> scale,
       offsetX |-> Div(Sub(Whole(displayWidth), Mul(Whole(videoWidth), scale)), Whole(2)),
       offsetY |-> Div(Sub(Whole(displayHeight), Mul(Whole(videoHeight), scale)), Whole(2))]

\* A box scaled without the centring offsets.
scaleBoxNoOffset(obj, scale, offsetX, offsetY) ==
  [scaledX |-> Mul(Whole(obj.x), scale),
   scaledY |-> Mul(Whole(obj.y), scale),
   scaledWidth |-> Mul(Whole(obj.width), scale),
   scaledHeight |-> Mul(Whole(obj.height), scale)]

\* The scaled coordinates of a box (throttled drawObjectsOnCanvas).
scaleBox(obj, scale, offsetX, offsetY) ==
  [scaledX |-> Add(Mul(Whole(obj.x), scale), offsetX),
   scaledY |-> Add(Mul(Whole(obj.y), scale), offsetY),
   scaledWidth |-> Mul(Whole(obj.width), scale),
   scaledHeight |-> Mul(Whole(obj.height), scale)]

\* What is drawn for one object: the rectangle stroked in the flipped
\* context, the label position in the unflipped one, and the two colours.
Drawn(obj, box, screenX, color, tag) ==
  [class |-> obj.class,
   scaledX |-> box.scaledX, scaledY |-> box.scaledY,
   scaledWidth |-> box.scaledWidth, scaledHeight |-> box.scaledHeight,
   screenX |-> screenX, screenY |-> box.scaledY,
   strokeStyle |-> color, fillStyle |-> color,
   labelText |-> <<obj.class, tag, obj.confidence>>]

\* drawObjectsOnCanvas of the throttled revision; canvasWidth is
\* canvasRef.current.width.
drawObjectsOnCanvasScaled(objects, scale, offsetX, offsetY, canvasWidth) ==
  Map(objects,
      LAMBDA obj :
        LET box == scaleBox(obj, scale, offsetX, offsetY)
            mirroredX == Sub(Sub(Whole(canvasWidth), box.scaledX), box.scaledWidth)
            color == IF ~obj.isTrash THEN "#8E8E93"
                     ELSE IF isRecyclable(obj.class) THEN "#34C759"
                     ELSE "#FF3B30"
        IN  Drawn(obj, box, mirroredX, color, ""))

\* drawObjectsOnCanvas of the main revision; videoWidth is
\* videoRef.current.videoWidth.
drawObjectsOnCanvas(objects, defaultColor, labelPrefix, videoWidth) ==
  Map(objects,
      LAMBDA obj :
        LET box == [scaledX |-> Whole(obj.x), scaledY |-> Whole(obj.y),
                    scaledWidth |-> Whole(obj.width),
                    scaledHeight |-> Whole(obj.height)]
            mirroredX == Whole(videoWidth - obj.x - obj.width)
            color == IF defaultColor # "" THEN defaultColor
                     ELSE IF isRecyclable(obj.class) THEN "lime" ELSE "red"
            tag == IF labelPrefix # "" THEN labelPrefix
                   ELSE IF isRecyclable(obj.class) THEN "Recyclable"
                   ELSE "Non-Recyclable"
        IN  Drawn(obj, box, mirroredX, color, tag))

\* One pass of the renderer over the predictions of an inference: the
\* canvas width it sets, the layout it computes and what it draws.
renderFrame(in) ==
  LET all == processDetections(in.predictions)
      trashItems == trashOf(all)
  IN  IF in.variant = "throttled"
      THEN IF in.displayWidth = 0 \/ in.displayHeight = 0
              \/ in.videoWidth = 0 \/ in.videoHeight = 0
           THEN [skipped |-> TRUE]
           ELSE LET layout == coverLayout(in.videoWidth, in.videoHeight,
                                         in.displayWidth, in.displayHeight)
                    allObjects ==
                      Map(trashItems, LAMBDA o : [class |-> o.class,
                            confidence |-> o.confidence, x |-> o.x, y |-> o.y,
                            width |-> o.width, height |-> o.height,
                            isTrash |-> TRUE])
                      \o Map(notTrashOf(all), LAMBDA o : [class |-> o.class,
                            confidence |-> o.confidence, x |-> o.x, y |-> o.y,
                            width |-> o.width, height |-> o.height,
                            isTrash |-> FALSE])
                IN  [skipped |-> FALSE,
                     canvasWidth |-> in.displayWidth,
                     scale |-> layout.scale,
                     offsetX |-> layout.offsetX,
                     offsetY |-> layout.offsetY,
                     drawn |-> drawObjectsOnCanvasScaled(allObjects,
                                 layout.scale, layout.offsetX, layout.offsetY,
                                 in.displayWidth)]
      ELSE [skipped |-> FALSE,
            canvasWidth |-> IF in.videoWidth # 0 THEN in.videoWidth ELSE 640,
            scale |-> Whole(1),
            offsetX |-> Whole(0),
            offsetY |-> Whole(0),
            drawn |-> drawObjectsOnCanvas(trashItems, "", "", in.videoWidth)
                      \o drawObjectsOnCanvas(notTrashOf(all), "blue",
                                             "Not Trash", in.videoWidth)]

\* Frame sizes: two camera formats, and 0 x 0 once the stream is detached.
VideoSizes == {<<640, 480>>, <<1280, 720>>, <<0, 0>>}

\* Sizes of the canvas on the page; 0 x 0 while it is not laid out.
DisplaySizes == {<<1280, 720>>, <<640, 480>>, <<375, 667>>, <<0, 0>>}

RenderScenes ==
  {<<Pred("bottle", 745, 100)>>,
   <<Pred("person", 950, 200), Pred("bottle", 745, 100)>>,
   <<Pred("banana", 614, 20), Pred("Person", 950, 300)>>}

RenderInit ==
  /\ InitWorld("main", FALSE)
  /\ \E v \in {"main", "throttled"}, frame \in VideoSizes,
        display \in DisplaySizes, scene \in RenderScenes :
       fnIn = [variant |-> v, videoWidth |-> frame[1], videoHeight |-> frame[2],
               displayWidth |-> display[1], displayHeight |-> display[2],
               predictions |-> scene]
  /\ fnOut = Plain("none")

\* drawDetections runs on the predictions of an inference.
Draw ==
  /\ fnOut = Plain("none")
  /\ fnOut' = renderFrame(fnIn)
  /\ UNCHANGED <<programVars, fnIn>>

RenderNext == Draw

RenderSpec == RenderInit /\ [][RenderNext]_vars

\* A frame of the throttled revision was rendered and not skipped.
ScaledFrame ==
  /\ fnOut # Plain("none")
  /\ fnIn.variant = "throttled"
  /\ ~fnOut.skipped

\* C17: for positive frame and display sizes the throttled renderer uses
\* scale = max(displayWidth/frameWidth, displayHeight/frameHeight),
\* offsetX = (displayWidth - frameWidth*scale)/2, the same for Y, and draws
\* each box at (x*scale + offsetX, y*scale + offsetY) with size
\* (width*scale, height*scale).
C17_CoverScaling ==
  ScaledFrame =>
    LET s == fnOut.scale
        ox == fnOut.offsetX
        oy == fnOut.offsetY
        vW == fnIn.videoWidth
        vH == fnIn.videoHeight
        dW == fnIn.displayWidth
        dH == fnIn.displayHeight
        boxes == processDetections(fnIn.predictions)
    IN  /\ s.n * vW >= dW * s.d
        /\ s.n * vH >= dH * s.d
        /\ s.n * vW = dW * s.d \/ s.n * vH = dH * s.d
        /\ 2 * ox.n * s.d = (dW * s.d - vW * s.n) * ox.d
        /\ 2 * oy.n * s.d = (dH * s.d - vH * s.n) * oy.d
        /\ Len(fnOut.drawn) = Len(boxes)
        /\ \A i \in 1..Len(boxes) :
             \E j \in 1..Len(fnOut.drawn) :
               LET o == boxes[i]
                   b == fnOut.drawn[j]
               IN  /\ b.class = o.class
                   /\ b.scaledX.n * s.d * ox.d
                        = (o.x * s.n * ox.d + ox.n * s.d) * b.scaledX.d
                   /\ b.scaledY.n * s.d * oy.d
                        = (o.y * s.n * oy.d + oy.n * s.d) * b.scaledY.d
                   /\ b.scaledWidth.n * s.d = o.width * s.n * b.scaledWidth.d
                   /\ b.scaledHeight.n * s.d = o.height * s.n * b.scaledHeight.d

\* C17 witness: a 640x480 frame on a 375x667 surface is scaled by 667/480
\* and shifted left, and two boxes are drawn.
C17_Witness ==
  /\ ScaledFrame
  /\ fnIn.videoWidth = 640
  /\ fnIn.displayWidth = 375
  /\ fnOut.scale = [n |-> 667, d |-> 480]
  /\ fnOut.offsetX.n < 0
  /\ Len(fnOut.drawn) = 2

\* A 640x480 frame was rendered on a 1280x720 surface.
FrameOfExample ==
  /\ ScaledFrame
  /\ fnIn.videoWidth = 640
  /\ fnIn.videoHeight = 480
  /\ fnIn.displayWidth = 1280
  /\ fnIn.displayHeight = 720

\* C18 as stated: for a 640x480 frame on a 1280x720 surface the scale is
\* 1.5 and offsetX is 160.
C18_ScaleAsStated ==
  FrameOfExample =>
    /\ fnOut.scale = [n |-> 3, d |-> 2]
    /\ fnOut.offsetX = [n |-> 160, d |-> 1]

\* C18 amended: for a 640x480 frame on a 1280x720 surface the scale is
\* max(1280/640, 720/480) = 2, offsetX is 0 and offsetY is -120.
C18_ScaleAsComputed ==
  FrameOfExample =>
    /\ fnOut.scale = [n |-> 2, d |-> 1]
    /\ fnOut.offsetX = [n |-> 0, d |-> 1]
    /\ fnOut.offsetY = [n |-> -120, d |-> 1]

\* C18 witness: the frame of the example was rendered with a bottle at
\* x = 100, which is drawn at x = 200.
C18_Witness ==
  /\ FrameOfExample
  /\ Len(fnOut.drawn) = 1
  /\ fnOut.drawn[1].scaledX = [n |-> 200, d |-> 1]

\* C19: the label of a box is put at the mirrored X, the width of the
\* drawing surface minus the box's scaled X and scaled width; mirroring that
\* again gives the scaled X back; on a 640-wide surface with scale 1 and no
\* offsets a box at x = 100 of width 40 is mirrored to 500.
C19_MirroredX ==
  (fnOut # Plain("none") /\ ~fnOut.skipped) =>
    \A i \in 1..Len(fnOut.drawn) :
      LET b == fnOut.drawn[i]
          surface == Whole(fnOut.canvasWidth)
      IN  /\ b.screenX = Sub(Sub(surface, b.scaledX), b.scaledWidth)
          /\ Sub(Sub(surface, b.screenX), b.scaledWidth) = b.scaledX
          /\ (/\ fnOut.canvasWidth = 640
              /\ fnOut.scale = Whole(1)
              /\ fnOut.offsetX = Whole(0)
              /\ b.scaledX = Whole(100)
              /\ b.scaledWidth = Whole(40)) => b.screenX = Whole(500)

\* C19 witness: the main revision drew a box at x = 100 of width 40 on its
\* 640-wide canvas after the stream was detached; the label is at -140.
C19_Witness ==
  /\ fnOut # Plain("none")
  /\ fnIn.variant = "main"
  /\ fnIn.videoWidth = 0
  /\ fnOut.canvasWidth = 640
  /\ \E i \in 1..Len(fnOut.drawn) :
       /\ fnOut.drawn[i].scaledX = Whole(100)
       /\ fnOut.drawn[i].screenX = Whole(-140)

\* C20: every drawn object has one colour for its box and its label: green
\* when its label is recyclable, gray when it is ignored (not trash), red
\* otherwise.
C20_ColourByClass ==
  (fnOut # Plain("none") /\ ~fnOut.skipped) =>
    \A i \in 1..Len(fnOut.drawn) :
      LET b == fnOut.drawn[i]
          lower == toLowerCase(b.class)
          green == {"#34C759", "lime"}
          gray == {"#8E8E93"}
          red == {"#FF3B30", "red"}
      IN  /\ b.strokeStyle = b.fillStyle
          /\ b.strokeStyle \in
               (IF lower \in NOT_TRASH_ITEMS THEN gray
                ELSE IF lower \in RECYCLABLE_TRASH_ITEMS \cup WRAPPER_LIKE_ITEMS
                THEN green
                ELSE red)

\* C20 witness: the main revision drew a person in blue.
C20_Witness ==
  /\ fnOut # Plain("none")
  /\ fnIn.variant = "main"
  /\ \E i \in 1..Len(fnOut.drawn) :
       /\ fnOut.drawn[i].class = "person"
       /\ fnOut.drawn[i].strokeStyle = "blue"

\* ======================================================== refusals and ticks
\* C25: when the camera request is refused the status is "Error accessing
\* webcam", the refusal does not start streaming, arms no tick and leaves no
\* camera request pending.
C25_CameraRefused ==
  [][CameraDenied =>
       /\ detectionStatus' = Plain("Error accessing webcam")
       /\ (~isStreaming => ~isStreaming')
       /\ rafs' = rafs
       /\ timers' = timers
       /\ video' = video
       /\ ~camRequest']_vars

\* C25 witness: the request was refused: the status says so, nothing
\* streams and neither a request nor a tick is pending.
C25_Witness ==
  /\ detectionStatus = Plain("Error accessing webcam")
  /\ ~isStreaming
  /\ ~camRequest
  /\ video = "none"
  /\ Threads(World) = 0

\* C26: a tick that fires while the in-flight flag is set starts no
\* inference, changes neither the loop state nor the snapshot and re-arms
\* exactly one tick; so while the flag stays set, however many ticks fire,
\* no further inference of the loop is started.
C26_BusyTickSkips ==
  /\ [][(Tick /\ detectionRunning) =>
          /\ inflight' = inflight
          /\ detectionRunning'
          /\ errorCount' = errorCount
          /\ elapsed' = elapsed
          /\ detectedObjects' = detectedObjects
          /\ recycleDetected' = recycleDetected
          /\ detectionStatus' = detectionStatus
          /\ canvas' = canvas
          /\ timers' = timers
          /\ Len(rafs') = Len(rafs)
          /\ rafs'[Len(rafs')].tracked
          /\ requestRef' = "pending"]_vars
  /\ [][(detectionRunning /\ detectionRunning') =>
          Len(LoopCalls(World')) <= Len(LoopCalls(World))]_vars

\* C26 witness: one inference is pending, the flag is set and a tick is
\* pending with it.
C26_Witness ==
  /\ isStreaming
  /\ detectionRunning
  /\ Len(LoopCalls(World)) = 1
  /\ Len(rafs) >= 1
  /\ requestRef = "pending"

\* C27: a tick that finds the frame not ready starts no inference, leaves
\* the error count, the time of the last detection and the snapshot
\* unchanged, ends with the in-flight flag false and re-arms one tick, whose
\* readiness check the throttle does not skip.
C27_NotReadyRetried ==
  [][(Tick /\ ~tickSkips(World, Head(rafs).clo) /\ ~tickThrottled(World)
        /\ frameNotReady(World)) =>
       /\ inflight' = inflight
       /\ errorCount' = errorCount
       /\ elapsed' = elapsed
       /\ detectedObjects' = detectedObjects
       /\ recycleDetected' = recycleDetected
       /\ detectionStatus' = detectionStatus
       /\ ~detectionRunning'
       /\ Len(rafs') = Len(rafs)
       /\ ~tickThrottled(World')]_vars

\* C27 witness: in the throttled revision a tick found the frame not ready
\* and the retry is held back by the throttle.
C27_Witness ==
  /\ variant = "throttled"
  /\ isStreaming
  /\ video = "metadata"
  /\ elapsed = 0
  /\ inflight = <<>>
  /\ rafs # <<>>

\* C28: after the k-th inference failure in a row the status is "Detection
\* error, retrying..." when k < 3 and "Detection error occurred" when k >= 3.
C28_StatusByFailureCount ==
  [][BurstReject =>
       detectionStatus' = IF fails' < 3
                          THEN Plain("Detection error, retrying...")
                          ELSE Plain("Detection error occurred")]_vars

\* C28 witness: three failures in a row in one session, and the status
\* still announces a retry.
C28_Witness ==
  /\ isStreaming
  /\ fails = 3
  /\ detectionStatus = Plain("Detection error, retrying...")

\* The pending timers armed with the given delay.
TimersWithDelay(ts, delay) == Len(SelectSeq(ts, LAMBDA t : t.delay = delay))

\* C29: after the k-th inference failure in a row the next tick is armed
\* with no delay when k < 3 and with a delay of k times the base delay when
\* 3 <= k < 5.
C29_BackoffByFailureCount ==
  [][(BurstReject /\ isStreaming /\ fails' < 5) =>
       LET k == fails'
           delay == IF k < 3 THEN 0 ELSE k * backoffMs(World)
       IN  TimersWithDelay(timers', delay) = TimersWithDelay(timers, delay) + 1]_vars

\* C29 witness: three failures in a row in one session, and the retry is
\* armed with no delay.
C29_Witness ==
  /\ isStreaming
  /\ fails = 3
  /\ TimersWithDelay(timers, 0) = 1
  /\ TimersWithDelay(timers, 3 * backoffMs(World)) = 0

\* C30: at most one tick is scheduled at any time, counting the pending
\* animation frames and the pending timers that will request one, and
\* requestRef holds the pending animation frame.
C30_OneScheduledTick ==
  /\ Len(rafs) + Len(SelectSeq(timers, LAMBDA t : t.clo.isStreaming)) <= 1
  /\ rafs # <<>> => (requestRef = "pending" /\ rafs[1].tracked)

\* C30 witness: two timers that will each request a tick are pending, and
\* requestRef holds neither.
C30_Witness ==
  /\ isStreaming
  /\ Len(SelectSeq(timers, LAMBDA t : t.clo.isStreaming)) = 2
  /\ requestRef = "null"

\* ===================================================== texts on the display
\* The texts of part_002 as a function of what the inference returned: any
\* list of up to MaxDet predictions, or a failure with the captured count.
TextLabels ==
  {"bottle", "Bottle", "cup", "banana", "person", "Person", "dog", "chair",
   "tie", "book", "orange", "teddy bear"}

TextInit ==
  /\ InitWorld("main", FALSE)
  /\ \/ \E predictions \in SeqsUpTo({Pred(c, 614, 20) : c \in TextLabels}, MaxDet) :
          fnIn = [failed |-> FALSE, predictions |-> predictions, errorCount |-> 0]
     \/ \E count \in 0..MaxStreak :
          fnIn = [failed |-> TRUE, predictions |-> <<>>, errorCount |-> count]
  /\ fnOut = Plain("none")

\* model.detect resolved: the connected micro:bit is sent the report's text.
DisplayDetected ==
  /\ fnOut = Plain("none")
  /\ ~fnIn.failed
  /\ fnOut' = [texts |-> reportDetected(processDetections(fnIn.predictions)).texts]
  /\ UNCHANGED <<programVars, fnIn>>

\* model.detect rejected.
DisplayError ==
  /\ fnOut = Plain("none")
  /\ fnIn.failed
  /\ fnOut' = [texts |-> reportError(fnIn.errorCount)]
  /\ UNCHANGED <<programVars, fnIn>>

TextNext == DisplayDetected \/ DisplayError

TextSpec == TextInit /\ [][TextNext]_vars

\* C23: every text the detection loop of part_002 sends to the display has
\* at most 5 characters, after an inference and after a failure.
C23_TextFitsDisplay ==
  fnOut # Plain("none") =>
    \A i \in 1..Len(fnOut.texts) : Len(fnOut.texts[i]) <= 5

\* C23 witness: a person alone was detected and the text sent is "PERSON".
C23_Witness ==
  /\ ~fnIn.failed
  /\ Names(fnIn.predictions) = <<"person">>
  /\ fnOut = [texts |-> <<Chars("PERSON")>>]

\* ============================================================ the micro:bit
\* The component with a micro:bit whose LED service works, under one
\* schedule of the loop: one chain of ticks, inferences that succeed.

\* The user clicks Connect: connectToMicrobit runs up to requestDevice.
ClickConnect ==
  /\ microbit.bluetooth
  /\ ~rendered.microbitConnected
  /\ ~microbit.connecting
  /\ microbit.phase = "none"
  /\ LET w1 == setMicrobitConnectionStatus(World, "Connecting...")
         w2 == setMicrobitConnecting(w1, TRUE)
     IN  Handled([w2 EXCEPT !.microbit.phase = "device"])

\* requestDevice or gatt.connect rejected.
ConnectFail ==
  /\ microbit.phase = "device"
  /\ LET w1 == setMicrobitConnectionStatus(World, "Connection failed")
         w2 == setMicrobitConnected(w1, FALSE)
         w3 == setMicrobitConnecting(w2, FALSE)
     IN  Handled([w3 EXCEPT !.microbit.phase = "none"])

\* The welcome write of a revision: the smile pattern, or the text "Hi!".
welcome(revision) ==
  IF revision = "main"
  THEN [kind |-> "pattern", data |-> "smile"]
  ELSE [kind |-> "text", data |-> Chars("Hi!")]

\* connectToMicrobit after gatt.connect resolved: the button service is set
\* up (btn) or its setup throws and is logged; with the LED service (led)
\* the welcome is written and awaited, without it the run ends.
servicesUp(w, btn, led) ==
  LET w1 == [w EXCEPT !.microbit.link = TRUE, !.microbit.buttons = btn]
  IN  IF led
      THEN [writeValue(w1, welcome(w.variant).kind, welcome(w.variant).data)
              EXCEPT !.microbit.phase = "welcome"]
      ELSE connected(w1, FALSE)

\* The GATT server is connected and the button handlers are registered.
ConnectServices ==
  /\ microbit.phase = "device"
  /\ \E led \in BOOLEAN : Handled(servicesUp(World, TRUE, led))

\* The welcome write resolved: part_002 arms the 2 s timer of the smile.
WelcomeResolve ==
  /\ microbit.phase = "welcome"
  /\ microbit.link
  /\ \E i \in 1..Len(microbit.writes) :
       /\ microbit.writes[i] = welcome(variant)
       /\ LET w1 == [World EXCEPT !.microbit.writes = RemoveAt(@, i),
                                  !.microbit.smileTimer = (variant = "part_002")]
          IN  Handled(connected(w1, TRUE))

\* The welcome write rejected: the error is logged, the run goes on.
WelcomeReject ==
  /\ microbit.phase = "welcome"
  /\ \E i \in 1..Len(microbit.writes) :
       /\ microbit.writes[i] = welcome(variant)
       /\ LET w1 == [World EXCEPT !.microbit.writes = RemoveAt(@, i)]
          IN  Handled(connected(onWriteError(w1), TRUE))

\* A pending write of the loop or of an effect resolved.
WriteResolve ==
  /\ microbit.link
  /\ \E i \in 1..Len(microbit.writes) :
       /\ microbit.phase = "welcome" => microbit.writes[i] # welcome(variant)
       /\ Handled([World EXCEPT !.microbit.writes = RemoveAt(@, i)])

\* A pending write of the loop or of an effect rejected.
WriteReject ==
  \E i \in 1..Len(microbit.writes) :
    /\ microbit.phase = "welcome" => microbit.writes[i] # welcome(variant)
    /\ Handled(onWriteError([World EXCEPT !.microbit.writes = RemoveAt(@, i)]))

\* part_002: the timer armed after the welcome fires and writes the smile.
SmileTimerFire ==
  /\ microbit.smileTimer
  /\ Handled(writeValue([World EXCEPT !.microbit.smileTimer = FALSE],
                        "pattern", "smile"))

\* Time passes on the clock of the writes.
LinkElapse ==
  /\ \E kind \in DOMAIN microbit.since : microbit.since[kind] < WriteGapCap
  /\ Handled([World EXCEPT !.microbit.since =
                [kind \in DOMAIN @ |->
                   IF @[kind] < WriteGapCap THEN @[kind] + 1 ELSE @[kind]]])

MicrobitInit ==
  /\ InitWorld("main", FALSE) \/ InitWorld("part_002", FALSE)
  /\ fnIn = <<>>
  /\ fnOut = Plain("none")

MicrobitNext ==
  \/ ModelLoadResolve
  \/ ClickStart
  \/ CameraGranted
  \/ LoadedMetadata
  \/ FrameReady
  \/ BurstTimer
  \/ Tick
  \/ DetectResolve
  \/ NotTrashResolve
  \/ ClickConnect
  \/ ConnectFail
  \/ ConnectServices
  \/ WelcomeResolve
  \/ WelcomeReject
  \/ WriteResolve
  \/ WriteReject
  \/ SmileTimerFire
  \/ MicrobitDisconnect
  \/ LinkElapse

MicrobitSpec == MicrobitInit /\ [][MicrobitNext]_vars

\* C21: two writes of the same kind are at least 100 ms apart: no step
\* issues a text or a pattern less than the update interval after the
\* text or pattern written before it.
C21_WritesSpaced == microbit.wrote # "early"

\* C21 witness: while streaming, the main revision wrote the pattern of a
\* snapshot less than 100 ms after the pattern before it.
C21_Witness ==
  /\ variant = "main"
  /\ isStreaming
  /\ detectedObjects # <<>>
  /\ microbit.wrote = "early"
  /\ microbit.since.pattern = 0
  /\ microbit.writes = <<[kind |-> "pattern", data |-> "rightArrow"]>>

\* C22: a write to the micro:bit that fails does not reach the detection
\* loop: its rejection changes neither the error count nor the snapshot,
\* the status, the in-flight flag or the pending ticks, and an inference
\* whose continuation writes to a lost link still publishes and re-arms.
C22_WriteFailureContained ==
  /\ [][WriteReject =>
          /\ errorCount' = errorCount
          /\ detectedObjects' = detectedObjects
          /\ recycleDetected' = recycleDetected
          /\ detectionStatus' = detectionStatus
          /\ isStreaming' = isStreaming
          /\ detectionRunning' = detectionRunning
          /\ requestRef' = requestRef
          /\ rafs' = rafs
          /\ timers' = timers
          /\ inflight' = inflight]_vars
  /\ [][(DetectResolve /\ ~microbit.link /\ microbit'.wrote # "none") =>
          /\ errorCount' = 0
          /\ ~detectionRunning'
          /\ requestRef' = "pending"
          /\ rafs' # <<>>
          /\ rafs'[Len(rafs')].tracked]_vars

\* C22 witness: the continuation of an inference has just written a text
\* to a link that is lost, so the write fails, and the loop is re-armed.
C22_Witness ==
  /\ isStreaming
  /\ ~microbit.link
  /\ microbit.wrote # "none"
  /\ microbit.writes # <<>>
  /\ microbit.writes[Len(microbit.writes)].kind = "text"
  /\ detectionStatus.kind = "Recyclable items detected: {}!"
  /\ rafs # <<>>

\* C24: when the link is lost the connected flag becomes false and the
\* connection status "Disconnected"; from then on, until the user connects
\* again, no write is issued and no connection is started.
C24_NoWriteAfterLoss ==
  /\ [][MicrobitDisconnect =>
          /\ ~microbitConnected'
          /\ microbit'.status = "Disconnected"
          /\ ~microbit'.link]_vars
  /\ [][(~microbit.link /\ microbit.phase = "none") =>
          /\ microbit'.wrote = "none"
          /\ microbit'.phase # "none" => ClickConnect]_vars

\* C24 witness: the link is lost, the flag and the status say so, and a
\* write has just been issued.
C24_Witness ==
  /\ ~microbit.link
  /\ microbit.phase = "none"
  /\ ~microbitConnected
  /\ microbit.status = "Disconnected"
  /\ microbit.wrote # "none"

\* ==================================================== published invariants
\* C34: the in-flight flag is true exactly when an inference call issued by
\* the loop is pending; nothing but the end of that call clears it.
C34_FlagExact ==
  detectionRunning <=> (Len(LoopCalls(World)) > 0)

\* C34 witness: an inference call of the loop is pending and the flag is
\* false.
C34_Witness ==
  /\ Len(LoopCalls(World)) = 1
  /\ ~detectionRunning
  /\ isStreaming

\* C35: detectedObjects never contains an object with an ignored (not-trash)
\* label, and the status never lists one among its recyclable items; an
\* ignored object is named in the status as not trash.
C35_NoIgnoredInTrash ==
  /\ \A i \in 1..Len(detectedObjects) : ~isNotTrash(detectedObjects[i].class)
  /\ \A i \in 1..Len(rendered.detectedObjects) :
       ~isNotTrash(rendered.detectedObjects[i].class)
  /\ \A i \in 1..Len(detectionStatus.items) : ~isNotTrash(detectionStatus.items[i])
  /\ \A i \in 1..Len(detectionStatus.names) : isNotTrash(detectionStatus.names[i])

\* C35 witness: a person and a bottle were detected; the bottle alone is
\* listed, the person is named in the status and drawn over the snapshot.
C35_Witness ==
  /\ isStreaming
  /\ Names(detectedObjects) = <<"bottle">>
  /\ detectionStatus.names = <<"person">>
  /\ detectionStatus.items = <<"bottle">>
  /\ \E o \in canvas.overlay : o.class = "person"

\* C36: recycleDetected is true only if detectedObjects contains an object
\* with a recyclable label; in particular it is false whenever
\* detectedObjects is empty.
C36_FlagHasRecyclable ==
  recycleDetected =>
    \E i \in 1..Len(detectedObjects) : isRecyclable(detectedObjects[i].class)

\* C36 witness: a session is running with no object listed while
\* recycleDetected is still true.
C36_Witness ==
  /\ isStreaming
  /\ video # "none"
  /\ detectedObjects = <<>>
  /\ recycleDetected

\* C37: isStreaming is true exactly when a camera stream is attached to the
\* video element.
C37_StreamingIffAttached ==
  isStreaming <=> (video # "none")

\* C37 witness: a render shows the stream as running and no camera stream
\* is attached to the video element.
C37_Witness ==
  /\ rendered.isStreaming
  /\ isStreaming
  /\ video = "none"
  /\ ~camRequest

\* ====================================================== the pattern shown
\* C38: while the micro:bit is connected and its LED service is set up, the
\* pattern handed to the link last is the one of the current snapshot: empty
\* when detectedObjects is empty, the right arrow when it is not and
\* recycleDetected is true, the left arrow otherwise.
C38_PatternOfSnapshot ==
  (variant = "main" /\ microbitConnected /\ microbit.ledService) =>
    microbit.last =
      IF detectedObjects = <<>> THEN "empty"
      ELSE IF recycleDetected THEN "rightArrow"
      ELSE "leftArrow"

\* C38 witness: the micro:bit is connected in a session whose snapshot lists
\* an object and no recyclable one, and the left arrow was written for it.
C38_Witness ==
  /\ variant = "main"
  /\ microbitConnected
  /\ isStreaming
  /\ detectedObjects # <<>>
  /\ ~recycleDetected
  /\ microbit.wrote # "none"
  /\ microbit.last = "leftArrow"

\* ================================================== runs of connectToMicrobit
\* connectToMicrobit as a handler of its own, in a browser with or without
\* Web Bluetooth and with each outcome of the device request, the GATT
\* connection and the setup of the two services.

\* connectToMicrobit where navigator.bluetooth is missing: the run ends at
\* its first check.  The button that calls connectToMicrobit is disabled in
\* such a browser, so this is the function run on its own.
ConnectUnsupported ==
  /\ ~microbit.bluetooth
  /\ ~rendered.microbitConnected
  /\ ~microbit.connecting
  /\ microbit.phase = "none"
  /\ LET w1 == setMicrobitConnectionStatus(World, "Connecting...")
         w2 == setMicrobitConnecting(w1, TRUE)
         w3 == setMicrobitConnectionStatus(w2, "Bluetooth not supported")
     IN  Handled(setMicrobitConnecting(w3, FALSE))

\* The GATT server is connected and the setup of the button service throws.
ConnectButtonsFail ==
  /\ microbit.phase = "device"
  /\ \E led \in BOOLEAN : Handled(servicesUp(World, FALSE, led))

ConnectInit ==
  /\ \E v \in {"main", "part_002"}, bluetooth \in BOOLEAN :
       InitComponent(v, FALSE, bluetooth)
  /\ fnIn = <<>>
  /\ fnOut = Plain("none")

ConnectNext ==
  \/ ModelLoadResolve
  \/ ClickConnect
  \/ ConnectUnsupported
  \/ ConnectFail
  \/ ConnectServices
  \/ ConnectButtonsFail
  \/ WelcomeResolve
  \/ WelcomeReject
  \/ WriteResolve
  \/ WriteReject
  \/ SmileTimerFire
  \/ MicrobitDisconnect
  \/ ButtonPressed

ConnectSpec == ConnectInit /\ [][ConnectNext]_vars

flipX(canvasWidth, x) == Sub(Whole(canvasWidth), x)

\* The left edge on screen of a rectangle stroked in the flipped context.
strokedLeftEdge(canvasWidth, b) ==
  MathMin(flipX(canvasWidth, b.scaledX),
          flipX(canvasWidth, Add(b.scaledX, b.scaledWidth)))

\* C33: the label of every drawn object starts at the left edge of its box
\* as the box appears on screen, for every frame size, a frame of width 0
\* on the 640-wide fallback canvas included.
C33_LabelAtBox ==
  (fnOut # Plain("none") /\ ~fnOut.skipped) =>
    \A i \in 1..Len(fnOut.drawn) :
      fnOut.drawn[i].screenX = strokedLeftEdge(fnOut.canvasWidth, fnOut.drawn[i])

\* C33 witness: the video reports width 0, the canvas is 640 wide, the box
\* of the bottle appears from 500 to 540 and its label is not at 500.
C33_Witness ==
  /\ fnOut # Plain("none")
  /\ ~fnOut.skipped
  /\ fnIn.videoWidth = 0
  /\ fnOut.canvasWidth = 640
  /\ \E i \in 1..Len(fnOut.drawn) :
       /\ fnOut.drawn[i].class = "bottle"
       /\ strokedLeftEdge(640, fnOut.drawn[i]) = Whole(500)
       /\ fnOut.drawn[i].screenX # Whole(500)

\* ================================================================== resize
\* The throttled revision on a page whose display surface changes size,
\* under one schedule of the loop: one chain of ticks, inferences that
\* succeed.

\* The window is resized: handleResize assigns the new client size to the
\* canvas, which resets its bitmap.  Only the throttled revision listens.
Resize ==
  /\ variant = "throttled"
  /\ \E width \in {"wide", "narrow"} \ {canvas.clientWidth} :
       Handled([World EXCEPT !.canvas = [Cleared(@) EXCEPT !.clientWidth = width]])

ResizeInit ==
  /\ \E mobile \in BOOLEAN : InitWorld("throttled", mobile)
  /\ fnIn = <<>>
  /\ fnOut = Plain("none")

ResizeNext ==
  \/ ModelLoadResolve
  \/ ClickStart
  \/ CameraGranted
  \/ LoadedMetadata
  \/ FrameReady
  \/ Elapse
  \/ BurstTimer
  \/ Tick
  \/ DetectResolve
  \/ Resize

ResizeSpec == ResizeInit /\ [][ResizeNext]_vars

\* C32: after every published snapshot, and after every resize of the
\* display surface, the canvas shows the boxes of the current snapshot,
\* laid out for the current display size.
C32_RedrawnOnResize ==
  [][(DetectResolve \/ Resize) =>
       /\ canvas'.base = detectedObjects'
       /\ canvas'.base # <<>> => canvas'.layoutWidth = canvas'.clientWidth]_vars

\* C32 witness: the surface was resized while the snapshot lists an object,
\* and since then no inference has resolved.
C32_Witness ==
  /\ isStreaming
  /\ detectedObjects # <<>>
  /\ canvas.clientWidth = "narrow"
  /\ canvas.layoutWidth = "wide"
  /\ canvas.base = <<>>

\* ================================================================ progress
\* The component when every inference succeeds and nobody stops the camera:
\* the user may start it, connect a micro:bit and press its buttons.
LiveNext ==
  \/ ModelLoadResolve
  \/ ClickStart
  \/ CameraGranted
  \/ LoadedMetadata
  \/ FrameReady
  \/ Elapse
  \/ TimerFire
  \/ Tick
  \/ DetectResolve
  \/ NotTrashResolve
  \/ MicrobitConnect
  \/ ButtonPressed

\* What the browser guarantees: a pending timeout fires, a requested
\* animation frame runs, a pending inference resolves, time passes, and an
\* attached camera stream delivers its metadata and its frames.  Nothing is
\* assumed of the user.
Fairness ==
  /\ WF_vars(TimerFire)
  /\ WF_vars(Tick)
  /\ WF_vars(DetectResolve)
  /\ WF_vars(NotTrashResolve)
  /\ WF_vars(Elapse)
  /\ WF_vars(CameraGranted)
  /\ WF_vars(LoadedMetadata)
  /\ WF_vars(FrameReady)

LiveSpec == Init /\ [][LiveNext]_vars /\ Fairness

\* C31: while isStreaming and modelLoaded are true and the error count is
\* below 5, a tick is scheduled or an inference of the loop is pending;
\* every publish of a running session re-arms the callback; and if the
\* stream keeps running, snapshots are published again and again.
C31_NoStall ==
  /\ []((isStreaming /\ modelLoaded /\ errorCount < 5) =>
          (rafs # <<>> \/ timers # <<>> \/ Len(LoopCalls(World)) > 0))
  /\ [][(DetectResolve /\ isStreaming') => rafs' # <<>>]_vars
  /\ <>[](isStreaming /\ modelLoaded /\ errorCount < 5)
       => []<><<DetectResolve>>_vars

\* C31 witness: the stream is shown as running with the model loaded and
\* no error counted, a tick is scheduled, no inference is pending, and the
\* video element has no camera stream.
C31_Witness ==
  /\ isStreaming
  /\ modelLoaded
  /\ errorCount = 0
  /\ rafs # <<>>
  /\ timers = <<>>
  /\ inflight = <<>>
  /\ video = "none"
  /\ ~camRequest

====
